---- MODULE Spec2Model ----
(***************************************************************************)
(* Model of Source/PLCrashAsyncDwarfPrivate.c: the GNU eh_frame encoded    *)
(* pointer decoder, the ULEB128/SLEB128 decoders and the fixed-width       *)
(* reader.                                                                 *)
(*                                                                         *)
(* 64-bit quantities (uint64_t, int64_t, pl_vm_address_t, pl_vm_size_t)    *)
(* are sets of bit positions in 0..63: bit i is in the set exactly when    *)
(* bit i of the two's-complement word is 1.  All arithmetic on them is     *)
(* modulo 2^64.                                                            *)
(***************************************************************************)
EXTENDS Integers, Sequences, FiniteSets

VARIABLES mobj, byteorder, state, call, err, result, size, nreads, depth

vars == <<mobj, byteorder, state, call, err, result, size, nreads, depth>>

(***************************************************************************)
(* Bounds of the model.                                                    *)
(***************************************************************************)
\* Longest run of continuation bytes in a mapping of the LEB128 specification.
MaxCont == 10
\* Largest offset of a decode location from the start of the mapping.
MaxOff == 3

\* F(v), with v evaluated once.
Bind(v, F(_)) == CHOOSE r \in {F(x) : x \in {v}} : TRUE

(***************************************************************************)
(* 64-bit words.                                                           *)
(***************************************************************************)
WordBits == 0 .. 63

Zero64 == {}

AllOnes64 == WordBits

\* The word of a natural number below 2^31.
FromNat(n) == {i \in 0 .. 30 : (n \div (2 ^ i)) % 2 = 1}

RECURSIVE SumPow2(_)
SumPow2(s) ==
    IF s = {} THEN 0
    ELSE LET i == CHOOSE x \in s : TRUE IN (2 ^ i) + SumPow2(s \ {i})

\* Whether a word is a natural number below 2^31.
IsSmall(w) == w \subseteq 0 .. 30

\* The natural number of a small word.
ToNat(w) == SumPow2(w)

Or64(a, b) == a \cup b

And64(a, b) == a \cap b

Not64(a) == WordBits \ a

\* a << k, for 0 <= k < 64; bits shifted past bit 63 are lost.
Shl64(a, k) == {i + k : i \in a} \cap WordBits

\* The carry into bit i of a + b: some lower bit j generates a carry (both
\* bits set) and every bit between j and i propagates it (one bit set).
CarryIn(a, b, i) ==
    \E j \in a : /\ j < i
                 /\ j \in b
                 /\ \A k \in (j + 1) .. (i - 1) : k \in a \/ k \in b

\* a + b modulo 2^64.
Add64(a, b) ==
    {i \in WordBits : ((i \in a) # (i \in b)) # CarryIn(a, b, i)}

\* -a modulo 2^64.
Neg64(a) == Add64(Not64(a), {0})

\* a - b modulo 2^64.
Sub64(a, b) == Add64(a, Neg64(b))

\* Unsigned a > b.
Gt64(a, b) ==
    \E i \in WordBits : i \in a /\ i \notin b
                        /\ \A j \in WordBits : j > i => ((j \in a) <=> (j \in b))

\* Signed a > b (two's complement).
SGt64(a, b) ==
    IF (63 \in a) # (63 \in b) THEN 63 \in b ELSE Gt64(a, b)

\* An integer of `width` bytes widened to 64 bits with its sign.
SignExtend(w, width) ==
    IF (8 * width - 1) \in w THEN w \cup (8 * width .. 63) ELSE w

(***************************************************************************)
(* Error codes (plcrash_error_t).                                          *)
(***************************************************************************)
PLCRASH_ESUCCESS == "ESUCCESS"

PLCRASH_ENOTFOUND == "ENOTFOUND"

PLCRASH_ENOTSUP == "ENOTSUP"

PLCRASH_EINVAL == "EINVAL"

(***************************************************************************)
(* The memory object: `bytes` mapped at task address `task_address`.       *)
(* NULL is index 0; a mapped address is the 1-based index of its byte.     *)
(***************************************************************************)
NULL == 0

\* plcrash_async_mobject_remap_address: the index of the first byte of
\* [address + offset, address + offset + length) when the whole range is
\* mapped, NULL otherwise.  The mapping lives below 2^31.
plcrash_async_mobject_remap_address(m, address, offset, length) ==
    IF ~IsSmall(address) THEN NULL
    ELSE LET a == ToNat(address) + offset
         IN  IF a >= m.task_address /\ a + length <= m.task_address + Len(m.bytes)
             THEN a - m.task_address + 1
             ELSE NULL

\* The host's load of an n-byte integer at index p (little-endian host).
RECURSIVE NativeLoad(_, _, _)
NativeLoad(m, p, n) ==
    IF n = 0 THEN Zero64
    ELSE Or64(FromNat(m.bytes[p]), Shl64(NativeLoad(m, p + 1, n - 1), 8))

\* byteorder->swap16/swap32/swap64: the identity when the target's order is
\* the host's, the reversal of the n bytes otherwise.
Swap(bo, n, w) ==
    IF bo = "little" THEN w
    ELSE {8 * (n - 1 - (i \div 8)) + (i % 8) : i \in w}

\* plcrash_async_mobject_read_uint16/32/64: one remap of n bytes, swapped.
plcrash_async_mobject_read_uint(m, bo, location, offset, n) ==
    LET p == plcrash_async_mobject_remap_address(m, location, offset, n)
    IN  IF p = NULL THEN [err |-> PLCRASH_EINVAL, value |-> Zero64]
        ELSE [err |-> PLCRASH_ESUCCESS, value |-> Swap(bo, n, NativeLoad(m, p, n))]

\* pl_dwarf_read_umax64: [ok, dest].
pl_dwarf_read_umax64(m, bo, base_addr, offset, data_size) ==
    LET data == plcrash_async_mobject_remap_address(m, base_addr, offset, data_size)
    IN  IF data = NULL THEN [ok |-> FALSE, dest |-> Zero64]
        ELSE IF data_size = 1 THEN [ok |-> TRUE, dest |-> NativeLoad(m, data, 1)]
        ELSE IF data_size \in {2, 4, 8}
             THEN [ok |-> TRUE, dest |-> Swap(bo, data_size, NativeLoad(m, data, data_size))]
        ELSE [ok |-> FALSE, dest |-> Zero64]

(***************************************************************************)
(* LEB128 decoders.  Each returns                                          *)
(*   err      the plcrash_error_t returned,                                *)
(*   result   *result on return (written from the first statement on),    *)
(*   sized    whether *size was written, and size its value,               *)
(*   shift    the cumulative shift on return,                              *)
(*   nreads   the number of single-byte remaps attempted.                  *)
(***************************************************************************)
\* The payload without the 0x7f mask.
UlebPayload_Unmasked(byte, shift) == Shl64(FromNat(byte), shift)

\* Line 353: ((uint64_t) (byte & 0x7f)) << shift.
UlebPayload(byte, shift) == Shl64(FromNat(byte % 128), shift)

\* Line 361: (byte & 0x80) == 0.
UlebTerminates(byte) == byte < 128

\* The size check one group early.
UlebTooLarge_Early(shift) == shift >= 63

\* Line 365: the check for a ULEB128 larger than 64 bits, made after a
\* continuation byte.
UlebTooLarge(shift) == shift >= 64

\* The loop of plcrash_async_dwarf_read_uleb128, from (acc, shift, offset).
RECURSIVE UlebLoop(_, _, _, _, _)
UlebLoop(m, location, acc, shift, offset) ==
    LET p == plcrash_async_mobject_remap_address(m, location, offset, 1)
    IN  IF p = NULL
        THEN [err |-> PLCRASH_EINVAL, result |-> acc, sized |-> FALSE, size |-> 0,
              shift |-> shift, last |-> 0, nreads |-> offset + 1]
        ELSE LET byte == m.bytes[p]
                 acc2 == Or64(acc, UlebPayload(byte, shift))
                 shift2 == shift + 7
                 offset2 == offset + 1
             IN  IF UlebTerminates(byte)
                 THEN [err |-> PLCRASH_ESUCCESS, result |-> acc2, sized |-> TRUE,
                       size |-> offset2, shift |-> shift2, last |-> byte,
                       nreads |-> offset2]
                 ELSE IF UlebTooLarge(shift2)
                 THEN [err |-> PLCRASH_ENOTSUP, result |-> acc2, sized |-> FALSE,
                       size |-> 0, shift |-> shift2, last |-> byte,
                       nreads |-> offset2]
                 ELSE UlebLoop(m, location, acc2, shift2, offset2)

plcrash_async_dwarf_read_uleb128(m, location) ==
    UlebLoop(m, location, Zero64, 0, 0)

\* Line 397: ((uint64_t) (byte & 0x7f)) << shift.
SlebPayload(byte, shift) == Shl64(FromNat(byte % 128), shift)

\* Line 405: (byte & 0x80) == 0.
SlebTerminates(byte) == byte < 128

\* The size check one group late.
SlebTooLarge_Late(shift) == shift >= 71

\* Line 409: the check for a SLEB128 larger than 64 bits, made after a
\* continuation byte.
SlebTooLarge(shift) == shift >= 64

\* The loop of plcrash_async_dwarf_read_sleb128, from (acc, shift, offset).
RECURSIVE SlebLoop(_, _, _, _, _)
SlebLoop(m, location, acc, shift, offset) ==
    LET p == plcrash_async_mobject_remap_address(m, location, offset, 1)
    IN  IF p = NULL
        THEN [err |-> PLCRASH_EINVAL, result |-> acc, sized |-> FALSE, size |-> 0,
              shift |-> shift, last |-> 0, nreads |-> offset + 1]
        ELSE LET byte == m.bytes[p]
                 acc2 == Or64(acc, SlebPayload(byte, shift))
                 shift2 == shift + 7
                 offset2 == offset + 1
             IN  IF SlebTerminates(byte)
                 THEN [err |-> PLCRASH_ESUCCESS, result |-> acc2, sized |-> TRUE,
                       size |-> offset2, shift |-> shift2, last |-> byte,
                       nreads |-> offset2]
                 ELSE IF SlebTooLarge(shift2)
                 THEN [err |-> PLCRASH_ENOTSUP, result |-> acc2, sized |-> FALSE,
                       size |-> 0, shift |-> shift2, last |-> byte,
                       nreads |-> offset2]
                 ELSE SlebLoop(m, location, acc2, shift2, offset2)

\* The sign taken from bit 0x20 of the terminating byte.
SlebSignBits_WrongBit(shift, byte) ==
    IF shift < 64 /\ (byte \div 32) % 2 = 1 THEN Neg64(Shl64({0}, shift)) ELSE Zero64

\* Lines 421-422: the word the sign extension ORs into *result.
SlebSignBits(shift, byte) ==
    IF shift < 64 /\ (byte \div 64) % 2 = 1 THEN Neg64(Shl64({0}, shift)) ELSE Zero64

plcrash_async_dwarf_read_sleb128(m, location) ==
    LET r == SlebLoop(m, location, Zero64, 0, 0)
    IN  IF r.err = PLCRASH_ESUCCESS
        THEN [r EXCEPT !.result = Or64(r.result, SlebSignBits(r.shift, r.last))]
        ELSE r

(***************************************************************************)
(* DW_EH_PE_t pointer encodings (LSB 4.1, section 10.5).                   *)
(***************************************************************************)
DW_EH_PE_absptr == 0

DW_EH_PE_uleb128 == 1

DW_EH_PE_udata2 == 2

DW_EH_PE_udata4 == 3

DW_EH_PE_udata8 == 4

DW_EH_PE_sleb128 == 9

DW_EH_PE_sdata2 == 10

DW_EH_PE_sdata4 == 11

DW_EH_PE_sdata8 == 12

DW_EH_PE_pcrel == 16

DW_EH_PE_textrel == 32

DW_EH_PE_datarel == 48

DW_EH_PE_funcrel == 64

DW_EH_PE_aligned == 80

DW_EH_PE_indirect == 128

DW_EH_PE_omit == 255

\* encoding & 0x70
BaseClass(encoding) == ((encoding \div 16) % 8) * 16

\* encoding & 0x0F
ValueRep(encoding) == encoding % 16

\* encoding & DW_EH_PE_indirect
IsIndirect(encoding) == (encoding \div DW_EH_PE_indirect) % 2 = 1

\* pl_vm_address_t is 64 bits wide: the sentinel and the limits of the
\* 64-bit build.
PL_VM_ADDRESS_INVALID == AllOnes64

PL_VM_ADDRESS_MAX == AllOnes64

PL_VM_OFF_MAX == WordBits \ {63}

PL_VM_OFF_MIN == {63}

(***************************************************************************)
(* The GNU eh_frame pointer state.                                         *)
(***************************************************************************)
plcrash_async_dwarf_gnueh_ptr_state_init(address_size, frame_section_base, frame_section_vm_addr, pc_rel_base, text_base, data_base, func_base) ==
    [address_size |-> address_size,
     frame_section_base |-> frame_section_base,
     frame_section_vm_addr |-> frame_section_vm_addr,
     pc_rel_base |-> pc_rel_base,
     text_base |-> text_base,
     data_base |-> data_base,
     func_base |-> func_base]

(***************************************************************************)
(* plcrash_async_dwarf_read_gnueh_ptr.                                     *)
(***************************************************************************)
\* Line 187: the aligned VM address.
AlignedVmAddr(vm_addr, address_size) ==
    And64(Add64(vm_addr, FromNat(address_size - 1)), Not64(FromNat(address_size)))

\* The aligned class checked for frame_section_vm_addr alone.
BaseUnsupported_AlignedVmAddrOnly(encoding, st) ==
    LET cls == BaseClass(encoding)
    IN  IF cls = DW_EH_PE_pcrel THEN st.pc_rel_base = PL_VM_ADDRESS_INVALID
        ELSE IF cls = DW_EH_PE_absptr THEN FALSE
        ELSE IF cls = DW_EH_PE_textrel THEN st.text_base = PL_VM_ADDRESS_INVALID
        ELSE IF cls = DW_EH_PE_datarel THEN st.data_base = PL_VM_ADDRESS_INVALID
        ELSE IF cls = DW_EH_PE_funcrel THEN st.func_base = PL_VM_ADDRESS_INVALID
        ELSE IF cls = DW_EH_PE_aligned
             THEN st.frame_section_vm_addr = PL_VM_ADDRESS_INVALID
        ELSE TRUE

\* Lines 131-201: a base class that cannot be decoded in this state, or is
\* not defined, returns PLCRASH_ENOTSUP.
BaseUnsupported(encoding, st) ==
    LET cls == BaseClass(encoding)
    IN  IF cls = DW_EH_PE_pcrel THEN st.pc_rel_base = PL_VM_ADDRESS_INVALID
        ELSE IF cls = DW_EH_PE_absptr THEN FALSE
        ELSE IF cls = DW_EH_PE_textrel THEN st.text_base = PL_VM_ADDRESS_INVALID
        ELSE IF cls = DW_EH_PE_datarel THEN st.data_base = PL_VM_ADDRESS_INVALID
        ELSE IF cls = DW_EH_PE_funcrel THEN st.func_base = PL_VM_ADDRESS_INVALID
        ELSE IF cls = DW_EH_PE_aligned
             THEN \/ st.frame_section_vm_addr = PL_VM_ADDRESS_INVALID
                  \/ st.frame_section_base = PL_VM_ADDRESS_INVALID
        ELSE TRUE

\* The switch of lines 131-201 when the base is supported: the base, the
\* location to read at and the size set so far.
BaseSelect(location, encoding, st) ==
    LET cls == BaseClass(encoding)
    IN  IF cls = DW_EH_PE_pcrel
        THEN [base |-> st.pc_rel_base, location |-> location, size |-> Zero64]
        ELSE IF cls = DW_EH_PE_textrel
        THEN [base |-> st.text_base, location |-> location, size |-> Zero64]
        ELSE IF cls = DW_EH_PE_datarel
        THEN [base |-> st.data_base, location |-> location, size |-> Zero64]
        ELSE IF cls = DW_EH_PE_funcrel
        THEN [base |-> st.func_base, location |-> location, size |-> Zero64]
        ELSE IF cls = DW_EH_PE_aligned
        THEN LET offset == Sub64(location, st.frame_section_base)
                 vm_addr == Add64(st.frame_section_vm_addr, offset)
                 skipped(va) == Sub64(AlignedVmAddr(va, st.address_size), va)
             IN  Bind(Bind(vm_addr, skipped),
                      LAMBDA d : [base |-> Zero64,
                                  location |-> Add64(location, d),
                                  size |-> d])
        ELSE [base |-> Zero64, location |-> location, size |-> Zero64]

\* The switch of lines 211-322 at (location, base, size): err is "" when
\* control reaches the break.  `garbage` is the content of an uninitialised
\* local read after a failed LEB128 decode.
ValueSelect(m, bo, location, encoding, st, base, sz, result0, garbage) ==
    LET rep == ValueRep(encoding)
        fail(e, n) == [err |-> e, result |-> result0, size |-> sz, nreads |-> n]
        done(v, w, n) == [err |-> "", result |-> Add64(v, base),
                          size |-> Add64(sz, w), nreads |-> n]
        fixed(n, signed) ==
            LET r == plcrash_async_mobject_read_uint(m, bo, location, 0, n)
            IN  IF r.err # PLCRASH_ESUCCESS THEN fail(r.err, 1)
                ELSE done(IF signed THEN SignExtend(r.value, n) ELSE r.value,
                          FromNat(n), 1)
    IN  IF rep = DW_EH_PE_absptr
        THEN LET r == pl_dwarf_read_umax64(m, bo, location, 0, st.address_size)
             IN  IF ~r.ok THEN fail(PLCRASH_EINVAL, 1)
                 ELSE done(r.dest, FromNat(st.address_size), 1)
        ELSE IF rep = DW_EH_PE_uleb128
        THEN LET r == plcrash_async_dwarf_read_uleb128(m, location)
             IN  IF Gt64(r.result, PL_VM_ADDRESS_MAX) THEN fail(PLCRASH_ENOTSUP, r.nreads)
                 ELSE done(r.result, IF r.sized THEN FromNat(r.size) ELSE garbage,
                           r.nreads)
        ELSE IF rep = DW_EH_PE_udata2 THEN fixed(2, FALSE)
        ELSE IF rep = DW_EH_PE_udata4 THEN fixed(4, FALSE)
        ELSE IF rep = DW_EH_PE_udata8 THEN fixed(8, FALSE)
        ELSE IF rep = DW_EH_PE_sleb128
        THEN LET r == plcrash_async_dwarf_read_sleb128(m, location)
             IN  IF SGt64(r.result, PL_VM_OFF_MAX) \/ SGt64(PL_VM_OFF_MIN, r.result)
                 THEN fail(PLCRASH_ENOTSUP, r.nreads)
                 ELSE done(r.result, IF r.sized THEN FromNat(r.size) ELSE garbage,
                           r.nreads)
        ELSE IF rep = DW_EH_PE_sdata2 THEN fixed(2, TRUE)
        ELSE IF rep = DW_EH_PE_sdata4 THEN fixed(4, TRUE)
        ELSE IF rep = DW_EH_PE_sdata8 THEN fixed(8, TRUE)
        ELSE fail(PLCRASH_ENOTSUP, 0)

\* The omit check made after *size = 0.
OmitReturn_SizeInitialised(result0, size0) ==
    [err |-> PLCRASH_ENOTFOUND, result |-> result0, size |-> Zero64,
     nreads |-> 0, depth |-> 0]

\* Lines 120-123: DW_EH_PE_omit returns before *size is initialised.
OmitReturn(result0, size0) ==
    [err |-> PLCRASH_ENOTFOUND, result |-> result0, size |-> size0,
     nreads |-> 0, depth |-> 0]

\* The whole function: err, *result and *size on return, the number of
\* mapping reads made and the depth of self-calls reached.  result0 and
\* size0 are what *result and *size held on entry.
RECURSIVE plcrash_async_dwarf_read_gnueh_ptr(_, _, _, _, _, _, _, _)
plcrash_async_dwarf_read_gnueh_ptr(m, bo, location, encoding, st, result0, size0, garbage) ==
    IF encoding = DW_EH_PE_omit
    THEN OmitReturn(result0, size0)
    ELSE IF BaseUnsupported(encoding, st)
    THEN [err |-> PLCRASH_ENOTSUP, result |-> result0, size |-> Zero64,
          nreads |-> 0, depth |-> 0]
    ELSE LET value(b) == ValueSelect(m, bo, b.location, encoding, st, b.base,
                                     b.size, result0, garbage)
             target(v) == plcrash_async_dwarf_read_gnueh_ptr(
                              m, bo, v.result, DW_EH_PE_absptr, st, v.result,
                              garbage, garbage)
             finish(v) ==
                 IF v.err # ""
                 THEN [err |-> v.err, result |-> v.result, size |-> v.size,
                       nreads |-> v.nreads, depth |-> 0]
                 ELSE IF IsIndirect(encoding)
                 THEN Bind(target(v),
                           LAMBDA t : [err |-> t.err, result |-> t.result,
                                       size |-> v.size,
                                       nreads |-> v.nreads + t.nreads,
                                       depth |-> t.depth + 1])
                 ELSE [err |-> PLCRASH_ESUCCESS, result |-> v.result,
                       size |-> v.size, nreads |-> v.nreads, depth |-> 0]
         IN  Bind(Bind(BaseSelect(location, encoding, st), value), finish)

(***************************************************************************)
(* Inputs.                                                                 *)
(***************************************************************************)
\* Where every mapping of the model is mapped.
TaskAddress == 2 ^ 4

\* Mappings of the pointer specification: an image whose first word is the
\* address of its second half (which holds the DWARF LEB128 test vectors of
\* the standard), an image of 0xff bytes, and a three-byte mapping that ends
\* in continuation bytes.
PtrImages ==
    { <<24, 0, 0, 0, 0, 0, 0, 0, 229, 142, 38, 127, 155, 241, 89, 128>>,
      [i \in 1 .. 16 |-> 255],
      <<24, 128, 128>> }

BaseNames == {"frame_section_base", "frame_section_vm_addr", "pc_rel_base",
              "text_base", "data_base", "func_base"}

\* Which bases the caller supplies: all, all but one, or none.
AvailConfigs == {BaseNames} \cup {BaseNames \ {b} : b \in BaseNames} \cup {{}}

\* The address the caller gives for a base it supplies.
BaseValue(name) ==
    IF name = "frame_section_base" THEN FromNat(TaskAddress)
    ELSE IF name = "frame_section_vm_addr" THEN FromNat(4096)
    ELSE IF name = "pc_rel_base" THEN FromNat(256)
    ELSE IF name = "text_base" THEN FromNat(512)
    ELSE IF name = "data_base" THEN FromNat(768)
    ELSE FromNat(1024)

Arg(avail, name) == IF name \in avail THEN BaseValue(name) ELSE PL_VM_ADDRESS_INVALID

StateFor(n, a) ==
    plcrash_async_dwarf_gnueh_ptr_state_init(
        n, Arg(a, "frame_section_base"), Arg(a, "frame_section_vm_addr"),
        Arg(a, "pc_rel_base"), Arg(a, "text_base"), Arg(a, "data_base"),
        Arg(a, "func_base"))

\* The states plcrash_async_dwarf_gnueh_ptr_state_init constructs: every
\* address size with all bases supplied, and the 64-bit target with a base
\* (or all) missing.
PtrStates ==
    {StateFor(n, BaseNames) : n \in {1, 2, 4, 8}}
        \cup {StateFor(8, a) : a \in AvailConfigs}

Encodings == 0 .. 255

\* Decode locations: the first bytes of the mapping.
Locations == {FromNat(TaskAddress + o) : o \in 0 .. MaxOff}

\* Decode locations of the LEB128 actions: the first two bytes.
LebLocations == {FromNat(TaskAddress), FromNat(TaskAddress + 1)}

\* What an uninitialised local may hold.
Garbage == {FromNat(7), AllOnes64}

\* Mappings of the LEB128 specification: up to MaxCont continuation bytes,
\* then a terminating byte or the end of the mapping; and the test vectors.
ContBytes == {128, 255}

TermBytes == {0, 1, 2, 64, 127}

LebImages ==
    LET runs == UNION {[1 .. n -> ContBytes] : n \in 0 .. MaxCont}
    IN  runs \cup {r \o <<t>> : r \in runs, t \in TermBytes}
             \cup {<<229, 142, 38>>, <<155, 241, 89>>}

\* The value the caller's output variables hold before a call.
Poison == FromNat(21845)

NoCall == [fn |-> "none", location |-> Zero64, encoding |-> 0]

(***************************************************************************)
(* The state machine: the caller's mapping, byte order and pointer state   *)
(* are fixed at construction; each action is one call, which leaves its    *)
(* return value in err and its outputs in result and size.  call records   *)
(* the arguments of the call; between calls the caller's output variables  *)
(* hold Poison.                                                            *)
(***************************************************************************)
InitOutputs ==
    /\ call = NoCall
    /\ err = "none"
    /\ result = Poison
    /\ size = Poison
    /\ nreads = 0
    /\ depth = 0

Init ==
    /\ mobj \in {[task_address |-> TaskAddress, bytes |-> b] : b \in PtrImages}
    /\ byteorder \in {"little", "big"}
    /\ state \in PtrStates
    /\ InitOutputs

InitLeb ==
    /\ mobj \in {[task_address |-> TaskAddress, bytes |-> b] : b \in LebImages}
    /\ byteorder = "little"
    /\ state = plcrash_async_dwarf_gnueh_ptr_state_init(
                   8, PL_VM_ADDRESS_INVALID, PL_VM_ADDRESS_INVALID,
                   PL_VM_ADDRESS_INVALID, PL_VM_ADDRESS_INVALID,
                   PL_VM_ADDRESS_INVALID, PL_VM_ADDRESS_INVALID)
    /\ InitOutputs

Idle == call.fn = "none"

ReadUleb128(location) ==
    /\ Idle
    /\ \E r \in {plcrash_async_dwarf_read_uleb128(mobj, location)} :
        /\ call' = [fn |-> "uleb128", location |-> location, encoding |-> 0]
        /\ err' = r.err
        /\ result' = r.result
        /\ size' = IF r.sized THEN FromNat(r.size) ELSE size
        /\ nreads' = r.nreads
        /\ depth' = 0
        /\ UNCHANGED <<mobj, byteorder, state>>

ReadSleb128(location) ==
    /\ Idle
    /\ \E r \in {plcrash_async_dwarf_read_sleb128(mobj, location)} :
        /\ call' = [fn |-> "sleb128", location |-> location, encoding |-> 0]
        /\ err' = r.err
        /\ result' = r.result
        /\ size' = IF r.sized THEN FromNat(r.size) ELSE size
        /\ nreads' = r.nreads
        /\ depth' = 0
        /\ UNCHANGED <<mobj, byteorder, state>>

ReadGnuehPtr(location, encoding, garbage) ==
    /\ Idle
    /\ \E r \in {plcrash_async_dwarf_read_gnueh_ptr(mobj, byteorder, location, encoding,
                                                   state, result, size, garbage)} :
        /\ call' = [fn |-> "gnueh_ptr", location |-> location, encoding |-> encoding]
        /\ err' = r.err
        /\ result' = r.result
        /\ size' = r.size
        /\ nreads' = r.nreads
        /\ depth' = r.depth
        /\ UNCHANGED <<mobj, byteorder, state>>

\* The caller has consumed the outputs and resets its variables for the next
\* call.
Return ==
    /\ ~Idle
    /\ call' = NoCall
    /\ err' = "none"
    /\ result' = Poison
    /\ size' = Poison
    /\ nreads' = 0
    /\ depth' = 0
    /\ UNCHANGED <<mobj, byteorder, state>>

\* An uninitialised local is read only after a failed LEB128 decode.
GarbageFor(encoding) ==
    IF ValueRep(encoding) \in {DW_EH_PE_uleb128, DW_EH_PE_sleb128}
    THEN Garbage ELSE {Zero64}

Uleb == \E l \in LebLocations : ReadUleb128(l)

Sleb == \E l \in LebLocations : ReadSleb128(l)

GnuehPtr ==
    \E l \in Locations, e \in Encodings : \E g \in GarbageFor(e) :
        ReadGnuehPtr(l, e, g)

Next == Uleb \/ Sleb \/ GnuehPtr \/ Return

Spec == Init /\ [][Next]_vars

NextLeb == Uleb \/ Sleb \/ Return

SpecLeb == InitLeb /\ [][NextLeb]_vars

(***************************************************************************)
(* What the properties below say about a call, stated from the bytes of    *)
(* the mapping and not from the decoders.                                  *)
(***************************************************************************)
\* The mapped bytes from address a (a natural number) to the end of the
\* mapping; empty when a is not mapped.
BytesFrom(a) ==
    IF a < mobj.task_address \/ a >= mobj.task_address + Len(mobj.bytes)
    THEN <<>>
    ELSE SubSeq(mobj.bytes, a - mobj.task_address + 1, Len(mobj.bytes))

\* The mapped bytes from the location of the call.
Stream == BytesFrom(ToNat(call.location))

\* The position of the first byte of seq with bit 0x80 clear, 0 if none.
TermAt(seq) ==
    IF \E k \in 1 .. Len(seq) : seq[k] < 128
    THEN CHOOSE k \in 1 .. Len(seq) :
             seq[k] < 128 /\ \A j \in 1 .. (k - 1) : seq[j] >= 128
    ELSE 0

BitOf(byte, b) == (byte \div (2 ^ b)) % 2 = 1

\* Where the payload bits of the first k bytes of seq land: bit b of byte i
\* (counted from 0) lands at position 7 * i + b.
PayloadPositions(seq, k) ==
    {p \in 0 .. (7 * k - 1) : BitOf(seq[(p \div 7) + 1], p % 7)}

\* The sum over the first k bytes of (byte_i & 0x7f) * 128^i, as a number.
RECURSIVE PayloadSum(_, _)
PayloadSum(seq, k) ==
    IF k = 0 THEN 0
    ELSE PayloadSum(seq, k - 1) + (seq[k] % 128) * (128 ^ (k - 1))

IsLebCall == call.fn \in {"uleb128", "sleb128"}

(***************************************************************************)
(* C3: the LEB128 decoders return Success only when every set payload bit  *)
(* of the encoding lands at a bit position below 64; an encoding that      *)
(* needs more than 64 bits is never returned as Success with its high      *)
(* bits dropped.                                                           *)
(***************************************************************************)
C3_SuccessOnlyWithin64Bits ==
    (IsLebCall /\ err = PLCRASH_ESUCCESS) =>
        \A p \in PayloadPositions(Stream, TermAt(Stream)) : p < 64

(***************************************************************************)
(* C4 as claimed: when the mapped range ends before a terminating byte is  *)
(* found, the LEB128 decoders fail with Invalid, however many continuation *)
(* bytes the mapping supplied.                                             *)
(***************************************************************************)
C4_UnterminatedIsInvalid ==
    (IsLebCall /\ TermAt(Stream) = 0) => err = PLCRASH_EINVAL

(***************************************************************************)
(* C4 as amended: when the mapped range ends before a terminating byte is  *)
(* found, the LEB128 decoders fail with Invalid if the mapping supplied    *)
(* fewer than 10 continuation bytes from the location, and with            *)
(* Unsupported if it supplied 10 or more.                                  *)
(***************************************************************************)
C4_UnterminatedShortIsInvalid ==
    (IsLebCall /\ TermAt(Stream) = 0) =>
        /\ Len(Stream) < 10 => err = PLCRASH_EINVAL
        /\ Len(Stream) >= 10 => err = PLCRASH_ENOTSUP

C4_Witness ==
    /\ IsLebCall
    /\ TermAt(Stream) = 0
    /\ Len(Stream) = 9
    /\ err = PLCRASH_EINVAL

(***************************************************************************)
(* C8: a ULEB128 that terminates at its k-th byte, k <= 9, decodes with    *)
(* Success to the sum of (byte_i & 0x7f) << (7 * i) and size k; 0x00 gives *)
(* 0 with size 1 and 0xE5 0x8E 0x26 gives 624485 with size 3.              *)
(***************************************************************************)
C8_UlebValueAndSize ==
    /\ (call.fn = "uleb128" /\ TermAt(Stream) \in 1 .. 9) =>
           /\ err = PLCRASH_ESUCCESS
           /\ size = FromNat(TermAt(Stream))
           /\ result = PayloadPositions(Stream, TermAt(Stream))
           /\ TermAt(Stream) <= 4 =>
                  /\ IsSmall(result)
                  /\ ToNat(result) = PayloadSum(Stream, TermAt(Stream))
    /\ (call.fn = "uleb128" /\ Stream = <<0>>) =>
           result = Zero64 /\ size = FromNat(1)
    /\ (call.fn = "uleb128" /\ Stream = <<229, 142, 38>>) =>
           result = FromNat(624485) /\ size = FromNat(3)

C8_Witness ==
    /\ call.fn = "uleb128"
    /\ TermAt(Stream) = 9
    /\ err = PLCRASH_ESUCCESS
    /\ 62 \in result
    /\ size = FromNat(9)

\* What C9 says of a SLEB128 call whose stream terminates at byte k.
SlebDecodesAt(k) ==
    LET acc == plcrash_async_dwarf_read_uleb128(mobj, call.location).result
        signed == 7 * k < 64 /\ BitOf(Stream[k], 6)
    IN  /\ err = PLCRASH_ESUCCESS
        /\ size = FromNat(k)
        /\ acc = PayloadPositions(Stream, k) \cap WordBits
        /\ result = acc \cup (IF signed THEN (7 * k) .. 63 ELSE {})

(***************************************************************************)
(* C9 as claimed: a SLEB128 that terminates at its k-th byte, for every k, *)
(* decodes with Success and size k to the accumulator of the unsigned      *)
(* decoder, with all bits at positions >= 7k set exactly when 7k < 64 and  *)
(* bit 0x40 of the terminating byte is set.                                *)
(***************************************************************************)
C9_SlebEveryLength ==
    (call.fn = "sleb128" /\ TermAt(Stream) > 0) => SlebDecodesAt(TermAt(Stream))

(***************************************************************************)
(* C9 as amended: a SLEB128 that terminates at its k-th byte, k <= 10,     *)
(* decodes with Success and size k to the accumulator of the unsigned      *)
(* decoder, with all bits at positions >= 7k set exactly when 7k < 64 and  *)
(* bit 0x40 of the terminating byte is set; a 10-byte encoding is returned *)
(* without sign extension.  0x7F gives -1 with size 1 and 0x9B 0xF1 0x59   *)
(* gives -624485 with size 3.                                              *)
(***************************************************************************)
C9_SlebValueAndSize ==
    /\ (call.fn = "sleb128" /\ TermAt(Stream) \in 1 .. 10) =>
           SlebDecodesAt(TermAt(Stream))
    /\ (call.fn = "sleb128" /\ Stream = <<127>>) =>
           result = AllOnes64 /\ size = FromNat(1)
    /\ (call.fn = "sleb128" /\ Stream = <<155, 241, 89>>) =>
           result = Neg64(FromNat(624485)) /\ size = FromNat(3)

C9_Witness ==
    /\ call.fn = "sleb128"
    /\ TermAt(Stream) = 9
    /\ BitOf(Stream[9], 6)
    /\ err = PLCRASH_ESUCCESS
    /\ 63 \in result
    /\ 61 \notin result

(***************************************************************************)
(* The pointer decoder's call, stated from the arguments and the bytes of  *)
(* the mapping.                                                            *)
(***************************************************************************)
IsPtrCall == call.fn = "gnueh_ptr"

Cls == BaseClass(call.encoding)

Rep == ValueRep(call.encoding)

FixedReps == {DW_EH_PE_absptr, DW_EH_PE_udata2, DW_EH_PE_udata4, DW_EH_PE_udata8,
              DW_EH_PE_sdata2, DW_EH_PE_sdata4, DW_EH_PE_sdata8}

LebReps == {DW_EH_PE_uleb128, DW_EH_PE_sleb128}

SignedReps == {DW_EH_PE_sdata2, DW_EH_PE_sdata4, DW_EH_PE_sdata8}

\* The width of a fixed-width representation.
WidthOf(rep) ==
    IF rep = DW_EH_PE_absptr THEN state.address_size
    ELSE IF rep \in {DW_EH_PE_udata2, DW_EH_PE_sdata2} THEN 2
    ELSE IF rep \in {DW_EH_PE_udata4, DW_EH_PE_sdata4} THEN 4
    ELSE 8

\* The base the class requires is missing, or the class is not defined.
BaseMissing ==
    \/ Cls = DW_EH_PE_pcrel /\ state.pc_rel_base = PL_VM_ADDRESS_INVALID
    \/ Cls = DW_EH_PE_textrel /\ state.text_base = PL_VM_ADDRESS_INVALID
    \/ Cls = DW_EH_PE_datarel /\ state.data_base = PL_VM_ADDRESS_INVALID
    \/ Cls = DW_EH_PE_funcrel /\ state.func_base = PL_VM_ADDRESS_INVALID
    \/ Cls = DW_EH_PE_aligned /\ state.frame_section_base = PL_VM_ADDRESS_INVALID
    \/ Cls = DW_EH_PE_aligned /\ state.frame_section_vm_addr = PL_VM_ADDRESS_INVALID
    \/ Cls \notin {DW_EH_PE_absptr, DW_EH_PE_pcrel, DW_EH_PE_textrel,
                   DW_EH_PE_datarel, DW_EH_PE_funcrel, DW_EH_PE_aligned}

\* The base added to the value read.
BaseOf ==
    IF Cls = DW_EH_PE_pcrel THEN state.pc_rel_base
    ELSE IF Cls = DW_EH_PE_textrel THEN state.text_base
    ELSE IF Cls = DW_EH_PE_datarel THEN state.data_base
    ELSE IF Cls = DW_EH_PE_funcrel THEN state.func_base
    ELSE Zero64

\* The virtual address of the location of an aligned call.
VmAddr ==
    ToNat(state.frame_section_vm_addr)
        + (ToNat(call.location) - ToNat(state.frame_section_base))

\* The bytes from vm up to the next multiple of n.
RoundUpPadding(vm, n) == (n - (vm % n)) % n

\* The alignment padding of the call: for the aligned class the bytes from
\* the location's virtual address up to the next multiple of address_size,
\* none for the other classes.
Padding ==
    IF Cls = DW_EH_PE_aligned THEN RoundUpPadding(VmAddr, state.address_size) ELSE 0

\* Where the value of the call is read.
ReadAt == ToNat(call.location) + Padding

\* The w bytes mapped at address a, as an unsigned integer in the byte
\* order of the call.
WordAt(a, w) ==
    {p \in 0 .. (8 * w - 1) :
        LET i == IF byteorder = "little" THEN p \div 8 ELSE w - 1 - (p \div 8)
        IN  BitOf(BytesFrom(a)[i + 1], p % 8)}

Mapped(a, w) == Len(BytesFrom(a)) >= w

\* The value a fixed-width representation reads at address a.
FixedValueAt(a, rep) ==
    IF rep \in SignedReps THEN SignExtend(WordAt(a, WidthOf(rep)), WidthOf(rep))
    ELSE WordAt(a, WidthOf(rep))

\* The decoder applied to the arguments of the call with encoding e.
Decode(e) ==
    plcrash_async_dwarf_read_gnueh_ptr(mobj, byteorder, call.location, e, state,
                                       Poison, Poison, Zero64)

(***************************************************************************)
(* C1: when the sub-operation that obtains the value fails, the pointer    *)
(* decode returns that failure and never Success: an unavailable           *)
(* fixed-width read returns Invalid, and for the uleb128 and sleb128       *)
(* representations a LEB128 decode that returns Invalid or Unsupported at  *)
(* the location makes the pointer decode return the same failure.          *)
(***************************************************************************)
C1_SubFailureIsReturned ==
    (IsPtrCall /\ call.encoding # DW_EH_PE_omit /\ ~BaseMissing) =>
        /\ (Rep \in FixedReps /\ ~Mapped(ReadAt, WidthOf(Rep))) =>
               err = PLCRASH_EINVAL
        /\ Rep = DW_EH_PE_uleb128 =>
               LET r == plcrash_async_dwarf_read_uleb128(mobj, FromNat(ReadAt))
               IN  r.err # PLCRASH_ESUCCESS => err = r.err
        /\ Rep = DW_EH_PE_sleb128 =>
               LET r == plcrash_async_dwarf_read_sleb128(mobj, FromNat(ReadAt))
               IN  r.err # PLCRASH_ESUCCESS => err = r.err

(***************************************************************************)
(* C2: for the aligned class with both section addresses available, the    *)
(* padding added to the location and charged to size rounds the location's *)
(* virtual address up to the next multiple of address_size: an absptr read *)
(* reports size = padding + address_size with padding in                   *)
(* 0 .. address_size - 1 (section base = vm addr, address_size 4, location *)
(* one byte into the section: padding 3, size 7).                          *)
(***************************************************************************)
C2_AlignedRoundsUp ==
    (IsPtrCall /\ Cls = DW_EH_PE_aligned /\ ~BaseMissing
               /\ Rep = DW_EH_PE_absptr /\ ~IsIndirect(call.encoding)) =>
        /\ err \in {PLCRASH_ESUCCESS, PLCRASH_EINVAL}
        /\ err = PLCRASH_ESUCCESS => size = FromNat(Padding + state.address_size)
        /\ err = PLCRASH_EINVAL => size = FromNat(Padding)

(***************************************************************************)
(* C5: with the indirect flag set and the decode at location L yielding    *)
(* address A, the decoder returns the plain absptr (width address_size,    *)
(* base 0) read at A; the size it reports is the bytes consumed at L,      *)
(* alignment padding plus representation width, without the bytes read at  *)
(* A; a failed read at A is returned as that failure.                      *)
(***************************************************************************)
\* The bytes the representation consumes at the read location.
ConsumedAtL ==
    IF Rep \in FixedReps THEN WidthOf(Rep) ELSE TermAt(BytesFrom(ReadAt))

\* The decode at L alone (the encoding without the indirect flag) succeeds,
\* with the value really obtained from the mapping.
FirstDecodeOk ==
    /\ Decode(call.encoding - DW_EH_PE_indirect).err = PLCRASH_ESUCCESS
    /\ Rep \in FixedReps => Mapped(ReadAt, WidthOf(Rep))
    /\ Rep \in LebReps => TermAt(BytesFrom(ReadAt)) \in 1 .. 10

IndirectIsAbsptrAtTarget ==
    LET A == Decode(call.encoding - DW_EH_PE_indirect).result
        n == state.address_size
        readable == IsSmall(A) /\ Mapped(ToNat(A), n)
    IN  /\ readable => err = PLCRASH_ESUCCESS /\ result = WordAt(ToNat(A), n)
        /\ ~readable => err = PLCRASH_EINVAL
        /\ size = FromNat(Padding + ConsumedAtL)

IsIndirectCall ==
    /\ IsPtrCall
    /\ call.encoding # DW_EH_PE_omit
    /\ IsIndirect(call.encoding)
    /\ ~BaseMissing
    /\ Rep \in FixedReps \cup LebReps

C5_IndirectValueAndSize ==
    (IsIndirectCall /\ FirstDecodeOk) => IndirectIsAbsptrAtTarget

\* C5 holds of every class but the aligned one.
C5_OutsideAligned ==
    (IsIndirectCall /\ Cls # DW_EH_PE_aligned /\ FirstDecodeOk) =>
        IndirectIsAbsptrAtTarget

(***************************************************************************)
(* C6: for the omit encoding the pointer decode returns NotFound, performs *)
(* no mapping read and leaves the result and size outputs unchanged.       *)
(***************************************************************************)
C6_OmitIsNotFound ==
    [][(call'.fn = "gnueh_ptr" /\ call'.encoding = DW_EH_PE_omit) =>
           /\ err' = PLCRASH_ENOTFOUND
           /\ nreads' = 0
           /\ result' = result
           /\ size' = size]_vars

C6_Witness ==
    /\ IsPtrCall
    /\ call.encoding = DW_EH_PE_omit
    /\ err = PLCRASH_ENOTFOUND
    /\ result = Poison
    /\ size = Poison

(***************************************************************************)
(* C7: for a non-omit encoding whose base class needs a base that is       *)
(* unavailable (pcrel, textrel, datarel, funcrel; aligned with either      *)
(* section address unavailable), or whose base class is not one of the six *)
(* defined, the pointer decode returns Unsupported, performs no mapping    *)
(* read and does not write the result, whatever the representation and the *)
(* indirect flag.                                                          *)
(***************************************************************************)
C7_MissingBaseIsUnsupported ==
    [][(call'.fn = "gnueh_ptr" /\ call'.encoding # DW_EH_PE_omit /\ BaseMissing') =>
           /\ err' = PLCRASH_ENOTSUP
           /\ nreads' = 0
           /\ result' = result]_vars

C7_Witness ==
    /\ IsPtrCall
    /\ Cls = DW_EH_PE_aligned
    /\ state.frame_section_base = PL_VM_ADDRESS_INVALID
    /\ state.frame_section_vm_addr # PL_VM_ADDRESS_INVALID
    /\ IsIndirect(call.encoding)
    /\ Rep = DW_EH_PE_udata4
    /\ err = PLCRASH_ENOTSUP
    /\ nreads = 0

(***************************************************************************)
(* C10: for a fixed-width representation without the indirect flag whose   *)
(* read succeeds, the pointer decode returns (v + base) mod 2^64, v being  *)
(* the zero-extended read for absptr and udata2/4/8 and the sign-extended  *)
(* read for sdata2/4/8, and reports size = alignment padding + width; a    *)
(* low nibble that is none of the nine representations returns             *)
(* Unsupported (the omit encoding, 0xff, apart).                           *)
(***************************************************************************)
FixedValueAndSize ==
    /\ Mapped(ReadAt, WidthOf(Rep)) =>
           /\ err = PLCRASH_ESUCCESS
           /\ result = Add64(FixedValueAt(ReadAt, Rep), BaseOf)
           /\ size = FromNat(Padding + WidthOf(Rep))
    /\ err = PLCRASH_ESUCCESS => Mapped(ReadAt, WidthOf(Rep))

IsFixedCall ==
    /\ IsPtrCall
    /\ call.encoding # DW_EH_PE_omit
    /\ ~IsIndirect(call.encoding)
    /\ ~BaseMissing
    /\ Rep \in FixedReps

UndefinedRepIsUnsupported ==
    (IsPtrCall /\ call.encoding # DW_EH_PE_omit /\ Rep \notin FixedReps \cup LebReps) =>
        err = PLCRASH_ENOTSUP

C10_FixedWidthValueAndSize ==
    /\ IsFixedCall => FixedValueAndSize
    /\ UndefinedRepIsUnsupported

\* C10 holds of every class but the aligned one.
C10_OutsideAligned ==
    /\ (IsFixedCall /\ Cls # DW_EH_PE_aligned) => FixedValueAndSize
    /\ UndefinedRepIsUnsupported

(***************************************************************************)
(* C11.  Bounded reads and bounded recursion.                              *)
(***************************************************************************)
\* The returns a LEB128 decoder can make.
LebReturns == {PLCRASH_ESUCCESS, PLCRASH_ENOTSUP, PLCRASH_EINVAL}

\* The reads of a LEB128 decode: at most 10 single-byte remaps attempted, the
\* 10th being made only after 9 continuation bytes; Unsupported is returned
\* after exactly 10 and Invalid at the first byte outside the mapping.
LebReadsBounded ==
    /\ err \in LebReturns
    /\ nreads \in 1 .. 10
    /\ \A i \in 1 .. nreads - 1 : i <= Len(Stream) /\ Stream[i] >= 128
    /\ err = PLCRASH_ENOTSUP => nreads = 10
    /\ err = PLCRASH_EINVAL => nreads = Len(Stream) + 1
    /\ err = PLCRASH_ESUCCESS => nreads = TermAt(Stream)

\* The reads and self-calls of a pointer decode: at most one self-call, made
\* only for an encoding with the indirect flag, which makes at most the one
\* fixed-width read of a plain absptr; the first decode makes at most 10
\* reads for a LEB128 representation and at most one otherwise.
PtrReadsBounded ==
    /\ depth \in 0 .. 1
    /\ depth = 1 => IsIndirect(call.encoding)
    /\ nreads <= (IF Rep \in LebReps THEN 10 ELSE 1) + depth
    /\ (call.encoding = DW_EH_PE_omit \/ BaseMissing) => nreads = 0

\* C11: every decode returns after a bounded number of mapping reads, for
\* every input, mappings filled with continuation bytes included: a LEB128
\* decode attempts at most 10 single-byte reads and returns Success,
\* Unsupported or Invalid, and plcrash_async_dwarf_read_gnueh_ptr calls itself
\* at most once, the self-call making a single absptr read.
C11_BoundedReadsAndDepth ==
    /\ IsLebCall => LebReadsBounded
    /\ IsPtrCall => PtrReadsBounded

\* A pointer decode of an indirect LEB128 encoding over a mapping filled with
\* continuation bytes: 10 reads, then one self-call making one more.
C11_Witness ==
    /\ IsPtrCall
    /\ Rep \in LebReps
    /\ \A i \in 1 .. 10 : i <= Len(Stream) /\ Stream[i] >= 128
    /\ depth = 1
    /\ nreads = 11

====
